---- MODULE Spec2Model ----
(***************************************************************************)
(* Kronos stock-forecast service (filwu8/Kronos).                          *)
(*                                                                         *)
(* These parts of the program are modelled:                                *)
(*   - the per-instrument CSV cache of AStockDataFetcher                   *)
(*     (src/app/data_fetcher.py): _load_from_cache, _save_to_cache,        *)
(*     _is_cache_fresh, fetch_stock_data, refresh_stock_cache and the data *)
(*     acquisition prologue of predict_stock.  Specification: Spec.        *)
(*   - the post-processing pipeline of                                     *)
(*     StockPredictionService.predict_stock                                *)
(*     (src/app/prediction_service.py): Monte Carlo aggregation, gap       *)
(*     calibration, band widening, first-step scale calibration,           *)
(*     _safe_price_continuity_fix, _enforce_daily_limits and the inline    *)
(*     daily-limit pass.  Specification: SpecForecast.                     *)
(* SpecInstruments runs the data operations of one day on every code of    *)
(* the cache directory, SpecServer the POST /refresh requests of the API   *)
(* process (src/app/api.py).  SpecRequest is the first prediction request  *)
(* of a started service up to prepare_data, SpecDevice the pipeline on     *)
(* GPU and CPU services with model calls that may raise.                   *)
(*                                                                         *)
(* Dates are days since 1970-01-01 (a Thursday).  A bar's OHLCV payload is *)
(* abstracted to one value v, enough to tell an old row from a new one.    *)
(* Prices are fixed-point integers in units of 0.000001 yuan; NaN is a     *)
(* value of its own.                                                       *)
(***************************************************************************)
EXTENDS Integers, Sequences, FiniteSets, TLC

VARIABLES
    today,      \* datetime.now().date()
    cache,      \* cache_dir/<code>.csv per instrument: [exists, rows]
    fetcher,    \* AStockDataFetcher's "last ..." fields
    sync,       \* what the last data operation did and returned
    server,     \* the POST /refresh requests of the API process
    service,          \* StockPredictionService: self.device, self.fast_cpu_mode
    prep,             \* predict_stock's df, x_df and y_timestamp after prepare_data
    stage,            \* where predict_stock stands in its post-processing
    history,          \* what the pipeline reads of df: last close, volatility
    instrument,       \* stock_code and the name in stock_info
    all_predictions,  \* the close path of each Monte Carlo sample
    bands,            \* pred_mean, pred_upper, pred_lower, pred_max, pred_min
    pred_df,          \* the forecast frame: open, high, low, close per day
    steps,            \* which corrections ran, and on what
    result            \* data.predictions of the response

cacheVars == <<today, cache, fetcher, sync, server>>

forecastVars == <<service, prep, stage, history, instrument, all_predictions, bands,
                  pred_df, steps, result>>

vars == <<cacheVars, forecastVars>>

(***************************************************************************)
(* Bounds of the cache model.                                              *)
(***************************************************************************)
MaxDay == 4        \* today ranges over StartDay (a Friday) .. MaxDay (Monday)
MaxRows == 2       \* rows in one remote response
YearDays == 4      \* scaled-down length of the "1y" window (365 in the code)

EpochWeekday == 3  \* 1970-01-01 is a Thursday; Timestamp.weekday(): Monday = 0
Saturday == 5      \* weekday() >= 5: Saturday, Sunday

Symbols == {"600000"}

\* the instruments of the directory: two listed ones and a bare 6-digit code
\* of neither board
Codes == {"600000", "000001", "900001"}

\* the first two characters of a code
Prefix2(code) ==
    CASE code = "600000" -> "60"
      [] code = "000001" -> "00"
      [] code = "900001" -> "90"
      [] OTHER -> "??"

\* normalize_stock_code on a bare 6-digit code: the two source symbols, or
\* ValueError (ok = FALSE) when the code starts with none of 60, 68, 00, 30
normalize_stock_code(code) ==
    IF Prefix2(code) \in {"60", "68"}
    THEN [ok |-> TRUE, akshare_code |-> code, yfinance_code |-> <<code, "SS">>]
    ELSE IF Prefix2(code) \in {"00", "30"}
    THEN [ok |-> TRUE, akshare_code |-> code, yfinance_code |-> <<code, "SZ">>]
    ELSE [ok |-> FALSE, akshare_code |-> "", yfinance_code |-> <<>>]
Periods == {"6mo", "1y"}
Vals == {1, 2}

Weekday(d) == (d + EpochWeekday) % 7

\* the model's first day, the first Friday; earlier history is not modelled
StartDay == CHOOSE d \in 0..6 : Weekday(d) = Saturday - 1

IsTradingDay(d) == Weekday(d) < Saturday

Min(a, b) == IF a <= b THEN a ELSE b

Max(a, b) == IF a >= b THEN a ELSE b

SeqDates(s) == {s[i].date : i \in 1..Len(s)}

MaxDate(s) == CHOOSE d \in SeqDates(s) : \A e \in SeqDates(s) : e <= d

MinDate(s) == CHOOSE d \in SeqDates(s) : \A e \in SeqDates(s) : d <= e

(***************************************************************************)
(* DataFrame.sort_index(): rows in ascending date order.  Every frame the  *)
(* model sorts has pairwise different dates, so the order is determined.   *)
(***************************************************************************)
RECURSIVE InsertByDate(_, _)
InsertByDate(r, s) ==
    IF s = <<>> THEN <<r>>
    ELSE IF r.date < Head(s).date THEN <<r>> \o s
    ELSE <<Head(s)>> \o InsertByDate(r, Tail(s))

RECURSIVE SortIndex(_)
SortIndex(s) ==
    IF s = <<>> THEN <<>>
    ELSE InsertByDate(s[Len(s)], SortIndex(SubSeq(s, 1, Len(s) - 1)))

(***************************************************************************)
(* pd.concat([old[~old.index.isin(new.index)], new]).sort_index()          *)
(***************************************************************************)
\* a merge in which old's row wins on a shared date
MergeKeepOld(old, new) ==
    LET NotInOld(r) == r.date \notin SeqDates(old)
    IN  SortIndex(old \o SelectSeq(new, NotInOld))

\* a merge that keeps new's rows only
MergeDropOld(old, new) == SortIndex(new)

\* a merge that keeps both rows of a shared date
MergeConcat(old, new) == SortIndex(old \o new)

\* the merge of the code
Merge(old, new) ==
    LET NotInNew(r) == r.date \notin SeqDates(new)
    IN  SortIndex(SelectSeq(old, NotInNew) \o new)


(***************************************************************************)
(* The cache file and its three primitives.                               *)
(***************************************************************************)
Row(d, v) == [date |-> d, v |-> v]

NoFile == [exists |-> FALSE, rows |-> <<>>]

NoMerge == [done |-> FALSE, old |-> <<>>, new |-> <<>>, out |-> <<>>]

\* a loader that reports every file as missing
LoadAlwaysMiss(file) == [df |-> <<>>, none |-> TRUE, status |-> "miss"]

\* _load_from_cache: None (df = <<>>, none = TRUE) when the file is missing,
\* otherwise the rows sorted by date.  Sets last_cache_status.
load_from_cache(file) ==
    IF ~file.exists
    THEN [df |-> <<>>, none |-> TRUE, status |-> "miss"]
    ELSE [df |-> SortIndex(file.rows), none |-> FALSE, status |-> "hit"]

\* _save_to_cache: the frame's rows, in the frame's order, replace the file.
save_to_cache(df) == [exists |-> TRUE, rows |-> df]

\* the while loop of _is_cache_fresh: back from a weekend day to Friday
RECURSIVE RecentTrading(_)
RecentTrading(d) == IF Weekday(d) >= Saturday THEN RecentTrading(d - 1) ELSE d

\* a freshness rule without the step back over the weekend
FreshWithoutWeekend(file, now) ==
    /\ file.exists
    /\ Len(file.rows) > 0
    /\ file.rows[Len(file.rows)].date >= now

\* a freshness rule that accepts a last row up to three days old
FreshIfWithinThreeDays(file, now) ==
    /\ file.exists
    /\ Len(file.rows) > 0
    /\ file.rows[Len(file.rows)].date + 3 >= now

\* _is_cache_fresh on a file without a data row: the second read_csv (line 410)
\* raises on a file of zero bytes, tail.iloc[0] (line 415) on a file that holds
\* only the header; neither is inside a try
FreshnessRaises(file) == file.exists /\ Len(file.rows) = 0

\* _is_cache_fresh: the date of the file's last row against the most recent
\* non-weekend day.
is_cache_fresh(file, now) ==
    /\ file.exists
    /\ Len(file.rows) > 0
    /\ file.rows[Len(file.rows)].date >= RecentTrading(now)

(***************************************************************************)
(* The remote sources.  A response is any sequence of at most MaxRows bars *)
(* of trading days in the requested range, with pairwise different dates,  *)
(* in any order; <<>> is an empty answer or an error (None).               *)
(***************************************************************************)
Bars(lo, hi) == {Row(d, v) : d \in {x \in Max(lo, StartDay)..hi : IsTradingDay(x)}, v \in Vals}

Responses(lo, hi) ==
    {s \in UNION {[1..n -> Bars(lo, hi)] : n \in 0..MaxRows} :
        \A i, j \in 1..Len(s) : i # j => s[i].date # s[j].date}

\* fetch_data_akshare: timedelta(days=365 / 730 / 1825), 365 for any other label
AkshareDays(p) ==
    IF p = "1y" THEN YearDays
    ELSE IF p = "2y" THEN 2 * YearDays
    ELSE IF p = "5y" THEN 5 * YearDays
    ELSE YearDays

\* fetch_data_yfinance: ticker.history(period=period)
YfinanceDays(p) ==
    IF p = "6mo" THEN YearDays \div 2
    ELSE IF p = "2y" THEN 2 * YearDays
    ELSE IF p = "5y" THEN 5 * YearDays
    ELSE YearDays

\* predict_stock: {"6mo": 180, "1y": 365, "2y": 730, "5y": 1825}.get(period, 365)
ExpectedDays(p) ==
    IF p = "6mo" THEN YearDays \div 2
    ELSE IF p = "2y" THEN 2 * YearDays
    ELSE IF p = "5y" THEN 5 * YearDays
    ELSE YearDays


(***************************************************************************)
(* fetch_stock_data(stock_code, period).  f: the fetcher's fields, file:   *)
(* the instrument's cache file, ak / yf: what the two sources answer if    *)
(* they are asked.  The result carries the new file and fields, the        *)
(* returned frame (<<>> for None), the sources called in order, the        *)
(* freshness verdict, the merge performed and the number of file writes.   *)
(***************************************************************************)
fetch_stock_data(f, file, now, p, ak, yf) ==
    LET fresh  == is_cache_fresh(file, now)
        verdict == IF fresh THEN "fresh" ELSE "stale"
        cached == load_from_cache(file)
        df     == IF Len(ak) > 0 THEN ak ELSE yf
        src    == IF Len(ak) > 0 THEN "akshare"
                  ELSE IF Len(yf) > 0 THEN "yfinance" ELSE "unknown"
        calls  == IF Len(ak) > 0 THEN <<"akshare">> ELSE <<"akshare", "yfinance">>
        merged == IF Len(cached.df) > 0 THEN Merge(cached.df, df) ELSE df
    IN  IF FreshnessRaises(file)
        THEN \* the exception of _is_cache_fresh leaves fetch_stock_data
             [file |-> file, fetcher |-> f, ret |-> <<>>, calls |-> <<>>,
              fresh |-> "raised", merge |-> NoMerge, writes |-> 0]
        ELSE IF fresh /\ Len(cached.df) > 0
        THEN \* 1) a fresh cache is returned as it is
             [file |-> file,
              fetcher |-> [f EXCEPT !.last_source = "cache",
                                    !.last_cache_status = cached.status],
              ret |-> cached.df, calls |-> <<>>, fresh |-> "fresh",
              merge |-> NoMerge, writes |-> 0]
        ELSE IF Len(df) = 0
        THEN \* 3) both sources failed: the old cache if there is one, else None
             [file |-> file,
              fetcher |-> [f EXCEPT
                  !.last_source = IF Len(cached.df) > 0 THEN "cache" ELSE @,
                  !.last_cache_status = cached.status],
              ret |-> cached.df, calls |-> calls, fresh |-> verdict,
              merge |-> NoMerge, writes |-> 0]
        ELSE \* 4) merge with the old cache, write, return
             [file |-> save_to_cache(merged),
              fetcher |-> [f EXCEPT !.last_source = src,
                                    !.last_cache_status = cached.status,
                                    !.cache_written = TRUE],
              ret |-> merged, calls |-> calls, fresh |-> verdict,
              merge |-> IF Len(cached.df) > 0
                        THEN [done |-> TRUE, old |-> cached.df, new |-> df,
                              out |-> merged]
                        ELSE NoMerge,
              writes |-> 1]

NoInfo == [ok |-> FALSE, source |-> "none", last_date |-> 0, rows |-> 0,
           has_rows_added |-> FALSE, rows_added |-> 0]

(***************************************************************************)
(* refresh_stock_cache(stock_code, period).  With a cache: the delta from  *)
(* the day after the last cached date, akshare first, then yfinance, both  *)
(* sorted; merged and written when rows came.  Without: fetch_stock_data.  *)
(* Line 326 of the source is a leftover template token and stands for no   *)
(* statement.                                                              *)
(***************************************************************************)
refresh_stock_cache(f, file, now, p, ak, yf) ==
    LET old      == load_from_cache(file)
        last_dt  == MaxDate(old.df)
        start_dt == last_dt + 1
        akInc    == SortIndex(ak)
        inc      == IF Len(akInc) > 0 THEN akInc ELSE SortIndex(yf)
        src      == IF Len(akInc) > 0 THEN "akshare"
                    ELSE IF Len(yf) > 0 THEN "yfinance" ELSE "unknown"
        calls    == IF Len(akInc) > 0 THEN <<"akshare">> ELSE <<"akshare", "yfinance">>
        merged   == Merge(old.df, inc)
        full     == fetch_stock_data([f EXCEPT !.last_cache_status = old.status],
                                     file, now, p, ak, yf)
    IN  IF Len(old.df) > 0
        THEN IF start_dt > now
             THEN \* already up to date
                  [file |-> file,
                   fetcher |-> [f EXCEPT !.last_source = "cache",
                                         !.last_cache_status = "hit"],
                   ret |-> old.df, calls |-> <<>>, fresh |-> "unchecked",
                   merge |-> NoMerge, writes |-> 0,
                   info |-> [ok |-> TRUE, source |-> "cache", last_date |-> last_dt,
                             rows |-> Len(old.df), has_rows_added |-> FALSE,
                             rows_added |-> 0]]
             ELSE IF Len(inc) > 0
             THEN [file |-> save_to_cache(merged),
                   fetcher |-> [f EXCEPT !.last_source = src,
                                         !.last_cache_status = "written",
                                         !.cache_written = TRUE,
                                         !.last_refresh_source = src,
                                         !.last_refresh_written = TRUE],
                   ret |-> merged, calls |-> calls, fresh |-> "unchecked",
                   merge |-> [done |-> TRUE, old |-> old.df, new |-> inc,
                              out |-> merged],
                   writes |-> 1,
                   info |-> [ok |-> TRUE, source |-> src,
                             last_date |-> MaxDate(merged), rows |-> Len(merged),
                             has_rows_added |-> TRUE, rows_added |-> Len(inc)]]
             ELSE [file |-> file,
                   fetcher |-> [f EXCEPT !.last_source = "cache",
                                         !.last_cache_status = "hit",
                                         !.last_refresh_source = "cache",
                                         !.last_refresh_written = FALSE],
                   ret |-> old.df, calls |-> calls, fresh |-> "unchecked",
                   merge |-> NoMerge, writes |-> 0,
                   info |-> [ok |-> TRUE, source |-> "cache", last_date |-> last_dt,
                             rows |-> Len(old.df), has_rows_added |-> TRUE,
                             rows_added |-> 0]]
        ELSE IF Len(full.ret) = 0
        THEN full @@ [info |-> NoInfo]
        ELSE [full EXCEPT !.fetcher.last_cache_status = "written"]
             @@ [info |-> [ok |-> TRUE, source |-> full.fetcher.last_source,
                           last_date |-> MaxDate(full.ret), rows |-> Len(full.ret),
                           has_rows_added |-> FALSE, rows_added |-> 0]]


(***************************************************************************)
(* The data prologue of predict_stock (lines 320-396): the local CSV if    *)
(* there is one, fetch_stock_data when its span is under 80% of the        *)
(* period's, fetch_stock_data when there is still no frame.  Qlib is not   *)
(* installed (has_qlib = FALSE).  A second fetch_stock_data follows a      *)
(* first only when the first returned None.                                *)
(***************************************************************************)
SpanDays(df) == MaxDate(df) - MinDate(df)

predict_data(f, file, now, p, ak, yf) ==
    LET cached == load_from_cache(file)
        df0    == IF file.exists THEN cached.df ELSE <<>>
        f0     == IF ~file.exists THEN f
                  ELSE [f EXCEPT !.last_cache_status = cached.status,
                                 !.last_source = IF Len(df0) > 0 THEN "cache" ELSE @]
        short  == Len(df0) > 0 /\ SpanDays(df0) * 10 < ExpectedDays(p) * 8
        none   == [file |-> file, fetcher |-> f0, ret |-> df0, calls |-> <<>>,
                   fresh |-> "unchecked", merge |-> NoMerge, writes |-> 0]
        r1     == IF short THEN fetch_stock_data(f0, file, now, p, ak, yf) ELSE none
        r2     == IF Len(r1.ret) > 0 THEN r1
                  ELSE LET g == fetch_stock_data(r1.fetcher, r1.file, now, p, ak, yf)
                       IN  [g EXCEPT !.calls = r1.calls \o @,
                                     !.writes = r1.writes + @]
    IN  r2 @@ [info |-> NoInfo]

(***************************************************************************)
(* Forecast pipeline: numbers.                                             *)
(*                                                                         *)
(* A float is a non-negative integer count of micro-yuan, or NaN.  A       *)
(* product x * n / d is taken exactly and floored to the unit.             *)
(***************************************************************************)
PredLen == 2       \* params['pred_len'] (30 in the code)
MaxSamples == 2    \* Monte Carlo samples per request (1..3 on CPU)

Yuan == 1000000
Cent == Yuan \div 100
NaN == 0 - 1

IsFinite(x) == x # NaN

\* float comparisons: every comparison with NaN is false
Lt(a, b) == IsFinite(a) /\ IsFinite(b) /\ a < b

Gt(a, b) == IsFinite(a) /\ IsFinite(b) /\ a > b

\* Python's builtin min(a, b) and max(a, b): the first argument unless the
\* second compares strictly beyond it
PyMin(a, b) == IF Lt(b, a) THEN b ELSE a

PyMax(a, b) == IF Gt(b, a) THEN b ELSE a

RECURSIVE PyMinSeq(_)
PyMinSeq(s) ==
    IF Len(s) = 1 THEN s[1] ELSE PyMin(PyMinSeq(SubSeq(s, 1, Len(s) - 1)), s[Len(s)])

RECURSIVE PyMaxSeq(_)
PyMaxSeq(s) ==
    IF Len(s) = 1 THEN s[1] ELSE PyMax(PyMaxSeq(SubSeq(s, 1, Len(s) - 1)), s[Len(s)])

\* <<floor(x * n / d), (x * n) mod d>> for x, n >= 0 and d > 0, digit by digit
RECURSIVE MulDivQR(_, _, _)
MulDivQR(x, n, d) ==
    IF x = 0
    THEN <<0, 0>>
    ELSE LET p == MulDivQR(x \div 10, n, d)
             t == p[2] * 10 + (x % 10) * n
         IN  <<p[1] * 10 + (t \div d), t % d>>

MulDiv(x, n, d) == MulDivQR(x, n, d)[1]

\* x * (n / d) on floats
FMul(x, n, d) == IF IsFinite(x) THEN MulDiv(x, n, d) ELSE NaN

FAdd(a, b) == IF IsFinite(a) /\ IsFinite(b) THEN a + b ELSE NaN

FSub(a, b) == IF IsFinite(a) /\ IsFinite(b) THEN a - b ELSE NaN

\* arr * (n / d) on an array
ScaleBy(arr, n, d) == [i \in 1..Len(arr) |-> FMul(arr[i], n, d)]

\* np.clip(x, lo, hi) with finite lo <= hi
Clip(x, lo, hi) == IF IsFinite(x) THEN Min(Max(x, lo), hi) ELSE NaN

\* np.floor(x * 100) / 100 and np.ceil(x * 100) / 100
FloorCent(x) == (x \div Cent) * Cent

CeilCent(x) == ((x + Cent - 1) \div Cent) * Cent

\* np.round(x, 2): to the nearest cent, ties to the even cent
RoundCent(x) ==
    LET q == x \div Cent
        r == x % Cent
    IN  IF r * 2 < Cent THEN q * Cent
        ELSE IF r * 2 > Cent THEN (q + 1) * Cent
        ELSE IF q % 2 = 0 THEN q * Cent
        ELSE (q + 1) * Cent

HasNaN(s) == \E i \in 1..Len(s) : s[i] = NaN

RECURSIVE InsertNum(_, _)
InsertNum(x, s) ==
    IF s = <<>> THEN <<x>>
    ELSE IF x <= Head(s) THEN <<x>> \o s
    ELSE <<Head(s)>> \o InsertNum(x, Tail(s))

RECURSIVE SortNums(_)
SortNums(s) == IF s = <<>> THEN <<>> ELSE InsertNum(Head(s), SortNums(Tail(s)))

RECURSIVE SumSeq(_)
SumSeq(s) == IF s = <<>> THEN 0 ELSE Head(s) + SumSeq(Tail(s))

\* np.percentile(s, q): linear interpolation between the order statistics
\* around position (n - 1) * q / 100; NaN if any sample is NaN
Percentile(s, q) ==
    IF HasNaN(s) THEN NaN
    ELSE LET srt == SortNums(s)
             pos == (Len(s) - 1) * q
             lo  == (pos \div 100) + 1
             fr  == pos % 100
         IN  IF fr = 0 THEN srt[lo]
             ELSE srt[lo] + ((srt[lo + 1] - srt[lo]) * fr) \div 100

\* np.max(s) and np.min(s): NaN if any sample is NaN
NpMax(s) == IF HasNaN(s) THEN NaN ELSE SortNums(s)[Len(s)]

NpMin(s) == IF HasNaN(s) THEN NaN ELSE SortNums(s)[1]

\* all_predictions[:, j]
Column(paths, j) == [i \in 1..Len(paths) |-> paths[i][j]]

\* all_predictions flattened in row order
Flat(paths) ==
    [k \in 1..(Len(paths) * PredLen) |->
        paths[((k - 1) \div PredLen) + 1][((k - 1) % PredLen) + 1]]

(***************************************************************************)
(* Forecast pipeline: what it reads.                                       *)
(***************************************************************************)
\* df['close'].iloc[-1] and returns.std() (in units of 0.0001) of the history
Histories ==
    {[last_close |-> 4 * Cent, volatility |-> 200],
     [last_close |-> 708 * Cent, volatility |-> 100],
     [last_close |-> 1000 * Cent, volatility |-> 200]}

\* stock_code, the upper-cased name of stock_info ('' without stock_info:
\* stock_info is only read at line 377, when the history did not come from the
\* cache) and whether the exchange lists the instrument as special treatment
Instruments ==
    {[code |-> <<"6", "0", "0", "0", "0", "0">>, name |-> <<>>, st |-> FALSE],
     [code |-> <<"6", "8", "8", "0", "0", "1">>, name |-> <<>>, st |-> FALSE],
     [code |-> <<"6", "0", "0", "0", "0", "1">>, name |-> <<"S", "T", "A">>, st |-> TRUE],
     [code |-> <<"6", "0", "0", "0", "0", "1">>, name |-> <<>>, st |-> TRUE]}

\* closes the model may predict for a day
ModelCloses == {643 * Cent, 1010 * Cent, NaN}

\* a volume: a count that may be negative, or NaN
Num(x) == [nan |-> FALSE, x |-> x]

NumNaN == [nan |-> TRUE, x |-> 0]

\* open, high, low, volume and amount the model may predict for a day
ModelBars ==
    {[open |-> 1005 * Cent, high |-> 1030 * Cent, low |-> 990 * Cent,
      volume |-> Num(2), amount |-> 2010 * Cent],
     [open |-> 1120 * Cent, high |-> 1150 * Cent, low |-> 1100 * Cent,
      volume |-> NumNaN, amount |-> NaN],
     [open |-> NaN, high |-> 700 * Cent, low |-> 730 * Cent,
      volume |-> Num(0 - 1), amount |-> 700 * Cent]}

StartsWith(s, prefix) ==
    Len(s) >= Len(prefix) /\ SubSeq(s, 1, Len(prefix)) = prefix

Contains(s, part) ==
    \E i \in 1..(Len(s) - Len(part) + 1) : SubSeq(s, i, i + Len(part) - 1) = part

(***************************************************************************)
(* Forecast pipeline: Monte Carlo statistics (lines 462-488).              *)
(***************************************************************************)
\* np.sqrt(j) in thousandths
SqrtMilli == <<1000, 1414, 1732, 2000>>

\* the first standard normal draws after np.random.seed(42), in thousandths
SeedDraws == <<497, 0 - 138, 648, 1523, 0 - 234, 0 - 234, 1579, 767, 0 - 469, 543>>

Abs(x) == IF x < 0 THEN 0 - x ELSE x

\* np.std(all_predictions) < daily_volatility * 0.1, on deviations in cents
StdBelow(paths, volatility) ==
    LET xs == Flat(paths)
        n  == Len(xs)
        mn == NpMin(xs)
        ds == [k \in 1..n |-> (xs[k] - mn) \div Cent]
        sq == [k \in 1..n |-> ds[k] * ds[k]]
    IN  /\ ~HasNaN(xs)
        /\ n * SumSeq(sq) - SumSeq(ds) * SumSeq(ds)
              <= (n * n * volatility * volatility - 1) \div 1000000

\* all_predictions[i][j] *= 1 + np.random.normal(0, volatility * sqrt(j) * 0.8)
Injected(paths, volatility) ==
    [i \in 1..Len(paths) |->
        [j \in 1..PredLen |->
            LET z   == SeedDraws[(i - 1) * PredLen + j]
                ppm == (((volatility * SqrtMilli[j]) \div 100) * Abs(z) * 8) \div 1000
                chg == MulDiv(paths[i][j], ppm, Yuan)
            IN  IF z >= 0 THEN paths[i][j] + chg ELSE paths[i][j] - chg]]

NoBands == [mean |-> <<>>, upper |-> <<>>, lower |-> <<>>, max |-> <<>>, min |-> <<>>]

\* median, 75th and 25th percentile, max and min over the samples, per day
Statistics(paths) ==
    [mean  |-> [j \in 1..PredLen |-> Percentile(Column(paths, j), 50)],
     upper |-> [j \in 1..PredLen |-> Percentile(Column(paths, j), 75)],
     lower |-> [j \in 1..PredLen |-> Percentile(Column(paths, j), 25)],
     max   |-> [j \in 1..PredLen |-> NpMax(Column(paths, j))],
     min   |-> [j \in 1..PredLen |-> NpMin(Column(paths, j))]]

(***************************************************************************)
(* Gap calibration of the median path (lines 490-523).                     *)
(***************************************************************************)
\* gap_percent > 3.0 and gap_percent < -3.0
GapAbove(first, last, pct) == IsFinite(first) /\ (first - last) * 100 > pct * last

GapBelow(first, last, pct) == IsFinite(first) /\ (first - last) * 100 < 0 - pct * last

\* a pipeline without the gap calibration
GapUncalibrated(b, last_close) == b

GapCalibrated(b, last_close) ==
    LET first_pred   == b.mean[1]
        target_price == IF GapAbove(first_pred, last_close, 3)
                        THEN MulDiv(last_close, 102, 100)
                        ELSE MulDiv(last_close, 98, 100)
    IN  IF GapAbove(first_pred, last_close, 3) \/ GapBelow(first_pred, last_close, 3)
        THEN [mean  |-> ScaleBy(b.mean, target_price, first_pred),
              upper |-> ScaleBy(b.upper, target_price, first_pred),
              lower |-> ScaleBy(b.lower, target_price, first_pred),
              max   |-> ScaleBy(b.max, target_price, first_pred),
              min   |-> ScaleBy(b.min, target_price, first_pred)]
        ELSE b

(***************************************************************************)
(* Band widening (lines 525-541).                                          *)
(***************************************************************************)
\* pred_upper[i] - pred_lower[i] < pred_mean[i] * 0.01
TooNarrow(b, i) ==
    /\ IsFinite(b.upper[i]) /\ IsFinite(b.lower[i]) /\ IsFinite(b.mean[i])
    /\ (b.upper[i] - b.lower[i]) * 100 < b.mean[i]

\* max(base_uncertainty, min_uncertainty_pct) in millionths, i counted from 1
Uncertainty(volatility, i) ==
    Max((volatility * SqrtMilli[i] * 8) \div 100, 15000 + 5000 * (i - 1))

HalfRange(b, volatility, i) == MulDiv(b.mean[i], Uncertainty(volatility, i), Yuan)

Widened(b, volatility) ==
    [b EXCEPT
        !.upper = [i \in 1..Len(b.upper) |->
                      IF TooNarrow(b, i)
                      THEN b.mean[i] + HalfRange(b, volatility, i) ELSE b.upper[i]],
        !.lower = [i \in 1..Len(b.lower) |->
                      IF TooNarrow(b, i)
                      THEN b.mean[i] - HalfRange(b, volatility, i) ELSE b.lower[i]]]

(***************************************************************************)
(* First-step scale calibration (lines 636-658).                           *)
(***************************************************************************)
\* first_pred > 0 and last_close > 0 and (ratio < 0.5 or ratio > 1.5)
RatioOutOfRange(first_pred, last_close) ==
    /\ IsFinite(first_pred) /\ first_pred > 0 /\ last_close > 0
    /\ (first_pred * 2 < last_close \/ first_pred * 2 > last_close * 3)

ScaleRow(row, n, d) ==
    [row EXCEPT !.open = FMul(row.open, n, d), !.high = FMul(row.high, n, d),
                !.low = FMul(row.low, n, d), !.close = FMul(row.close, n, d)]

\* <<pred_df, bands>> after the calibration
ScaleCalibrated(df, b, last_close) ==
    LET first_pred == df[1].close
    IN  IF Len(df) > 0 /\ RatioOutOfRange(first_pred, last_close)
        THEN <<[i \in 1..Len(df) |-> ScaleRow(df[i], last_close, first_pred)],
               [mean  |-> ScaleBy(b.mean, last_close, first_pred),
                upper |-> ScaleBy(b.upper, last_close, first_pred),
                lower |-> ScaleBy(b.lower, last_close, first_pred),
                max   |-> ScaleBy(b.max, last_close, first_pred),
                min   |-> ScaleBy(b.min, last_close, first_pred)]>>
        ELSE <<df, b>>

(***************************************************************************)
(* _get_daily_limit, _enforce_daily_limits, _safe_price_continuity_fix.    *)
(***************************************************************************)
\* the limit in percent
get_daily_limit(code) ==
    IF Len(code) = 0 THEN 10
    ELSE IF Contains(code, <<"S", "T">>) \/ StartsWith(code, <<"*", "S", "T">>) THEN 5
    ELSE IF StartsWith(code, <<"6", "8", "8">>) THEN 20
    ELSE IF StartsWith(code, <<"3", "0", "0">>) THEN 20
    ELSE 10

\* tolerance = 0.0001
Tolerance == Yuan \div 10000

\* one day of _enforce_daily_limits
LimitedRow(row, prev_close, daily_limit) ==
    LET min_price == FMul(prev_close, 100 - daily_limit, 100)
        max_price == FMul(prev_close, 100 + daily_limit, 100)
        prices == <<row.open, row.high, row.low, row.close>>
        max_current == PyMaxSeq(prices)
        min_current == PyMinSeq(prices)
        o_fixed == Clip(row.open, min_price, max_price)
        h_clip  == Clip(row.high, min_price, max_price)
        l_clip  == Clip(row.low, min_price, max_price)
        c_fixed == Clip(row.close, min_price, max_price)
        min_oc == PyMin(o_fixed, c_fixed)
        max_oc == PyMax(o_fixed, c_fixed)
    IN  IF \/ Gt(max_current, FAdd(max_price, Tolerance))
           \/ Lt(min_current, FSub(min_price, Tolerance))
        THEN [row EXCEPT !.open = o_fixed, !.high = PyMax(h_clip, max_oc),
                         !.low = PyMin(l_clip, min_oc), !.close = c_fixed]
        ELSE row

RECURSIVE LimitedFrom(_, _, _, _)
LimitedFrom(df, i, prev_close, daily_limit) ==
    IF i > Len(df) THEN df
    ELSE LET row == LimitedRow(df[i], prev_close, daily_limit)
         IN  LimitedFrom([df EXCEPT ![i] = row], i + 1, row.close, daily_limit)

enforce_daily_limits(df, initial_close, code) ==
    LimitedFrom(df, 1, initial_close, get_daily_limit(code))

\* the first day after the repair of an open more than 5% off the last close
GapFixedRow(row, last_close) ==
    LET first_open  == row.open
        target_open == IF first_open > last_close
                       THEN MulDiv(last_close, 103, 100)
                       ELSE MulDiv(last_close, 97, 100)
        h == FMul(row.high, target_open, first_open)
        l == FMul(row.low, target_open, first_open)
        c == FMul(row.close, target_open, first_open)
        min_oc == PyMin(target_open, c)
        max_oc == PyMax(target_open, c)
    IN  [row EXCEPT
             !.open = target_open,
             !.high = IF Lt(h, max_oc) THEN FMul(max_oc, 1001, 1000) ELSE h,
             !.low = IF Gt(l, min_oc) THEN FMul(min_oc, 999, 1000) ELSE l,
             !.close = c]

safe_price_continuity_fix(df, last_close, code) ==
    IF Len(df) = 0 \/ last_close <= 0 THEN df
    ELSE IF IsFinite(df[1].open) /\ df[1].open <= 0 THEN df
    ELSE LET first_open == df[1].open
             fixed == IF GapAbove(first_open, last_close, 5)
                         \/ GapBelow(first_open, last_close, 5)
                      THEN [df EXCEPT ![1] = GapFixedRow(df[1], last_close)]
                      ELSE df
         IN  enforce_daily_limits(fixed, last_close, code)

(***************************************************************************)
(* The inline daily-limit pass of predict_stock (lines 663-758).           *)
(***************************************************************************)
\* base_limit in percent
InlineLimit(ins) ==
    IF Contains(ins.name, <<"S", "T">>) \/ StartsWith(ins.code, <<"*", "S", "T">>) THEN 5
    ELSE IF StartsWith(ins.code, <<"6", "8", "8">>) \/ StartsWith(ins.code, <<"3", "0", "0">>)
         THEN 20
    ELSE 10

\* natural_margin = 0.002, in thousandths
NaturalMargin == 2

\* band_min, band_max, their quantization to cents and the inner bounds
Band(prev_close, daily_limit) ==
    LET band_min == Max(MulDiv(prev_close, 100 - daily_limit, 100), Cent)
        band_max == MulDiv(prev_close, 100 + daily_limit, 100)
        band_min_2 == CeilCent(band_min)
        band_max_2 == FloorCent(band_max)
    IN  [band_min |-> band_min, band_max |-> band_max,
         band_min_2 |-> band_min_2, band_max_2 |-> band_max_2,
         inner_min |-> Min(band_max_2,
                           Max(MulDiv(band_min_2, 1000 + NaturalMargin, 1000),
                               band_min_2 + Cent)),
         inner_max |-> Max(band_min_2,
                           Min(MulDiv(band_max_2, 1000 - NaturalMargin, 1000),
                               band_max_2 - Cent))]

\* a pass that rounds to cents and does not clip
Unconstrained(raw, bd) == RoundCent(raw)

\* clip to the band and round to cents, a value on a bound left there
ClippedOnly(raw, bd) == RoundCent(Clip(raw, bd.band_min, bd.band_max))

\* clip to the band, round to cents, pull a value on a quantized bound inward
Constrained(raw, bd) ==
    LET val == RoundCent(Clip(raw, bd.band_min, bd.band_max))
    IN  IF val >= bd.band_max_2 THEN bd.inner_max
        ELSE IF val <= bd.band_min_2 THEN bd.inner_min
        ELSE val

\* a non-finite value is replaced by prev_close
Finite(val, prev_close) == IF IsFinite(val) THEN val ELSE prev_close

InlineRow(row, prev_close, daily_limit) ==
    LET bd == Band(prev_close, daily_limit)
        c_val == Constrained(Finite(row.close, prev_close), bd)
        o_val == Constrained(Finite(row.open, prev_close), bd)
        h_val == Constrained(Finite(row.high, prev_close), bd)
        l_val == Constrained(Finite(row.low, prev_close), bd)
    IN  [row EXCEPT !.open = o_val, !.high = Max(h_val, Max(o_val, c_val)),
                    !.low = Min(l_val, Min(o_val, c_val)), !.close = c_val]

RECURSIVE InlineFrom(_, _, _, _)
InlineFrom(df, i, prev_close, daily_limit) ==
    IF i > Len(df) THEN df
    ELSE LET row == InlineRow(df[i], prev_close, daily_limit)
         IN  InlineFrom([df EXCEPT ![i] = row], i + 1, row.close, daily_limit)

\* a volume column left as the model gave it
VolumeKept(row) == row

\* lines 752-756: volume = max(volume.fillna(0), 0), amount = close * volume
VolumeFixed(row) ==
    LET volume == Max(IF row.volume.nan THEN 0 ELSE row.volume.x, 0)
    IN  [row EXCEPT !.volume = Num(volume), !.amount = row.close * volume]

enforce_inline(df, last_close, ins) ==
    LET rows == InlineFrom(df, 1, last_close, InlineLimit(ins))
    IN  [i \in 1..Len(rows) |-> VolumeFixed(rows[i])]

\* _format_predictions: one item per forecast day
format_predictions(df, b) ==
    [i \in 1..Len(df) |->
        [open |-> df[i].open, high |-> df[i].high, low |-> df[i].low,
         close |-> df[i].close, close_upper |-> b.upper[i], close_lower |-> b.lower[i],
         close_max |-> b.max[i], close_min |-> b.min[i]]]

(***************************************************************************)
(* predict_stock between data acquisition and the first model call:        *)
(* validate_data, the lookback of the request and prepare_data.            *)
(***************************************************************************)
MinDays == 2        \* rows predict_stock asks of validate_data (50 in the code)
FastLookback == 1   \* lookback under FAST_CPU_MODE on the CPU (200 in the code)
MaxContext == 2     \* default_params['max_context'] (2048 in the code)
MaxLookback == 3    \* largest lookback of a PredictionRequest (5000 in the code)

\* pd.bdate_range(start, periods): the first 'periods' Monday-to-Friday dates
\* from start on; no holiday calendar
RECURSIVE bdate_range(_, _)
bdate_range(start, periods) ==
    IF periods = 0 THEN <<>>
    ELSE IF IsTradingDay(start) THEN <<start>> \o bdate_range(start + 1, periods - 1)
    ELSE bdate_range(start + 1, periods)

\* lines 177-211
prepare_data(df, lookback, pred_len) ==
    LET lb         == IF Len(df) < lookback THEN Len(df) ELSE lookback
        x_df       == SubSeq(df, Len(df) - lb + 1, Len(df))
        last_date  == df[Len(df)].date
        pred_dates == bdate_range(last_date + 1, pred_len)
        later(d)   == d > MaxDate(x_df)
    IN  [x_df |-> x_df,
         y_timestamp |-> IF Len(x_df) > 0 THEN SelectSeq(pred_dates, later)
                         ELSE pred_dates]

\* lines 398-405: min_days = max(50, min(lookback + 1, len(df))), and
\* validate_data's count check (the frame's values are not modelled)
validate_data(df, min_days) == Len(df) > 0 /\ Len(df) >= min_days

\* lines 419-424: the lookback of the request, capped in the fast CPU mode
EffectiveLookback(svc, lookback) ==
    IF svc.device = "cpu" /\ svc.fast_cpu_mode THEN Min(lookback, FastLookback)
    ELSE lookback

NoPrep == [ok |-> FALSE, now |-> 0, lookback |-> 0, pred_len |-> 0, df |-> <<>>,
           x_df |-> <<>>, y_timestamp |-> <<>>]

(***************************************************************************)
(* State machine of the forecast pipeline.                                 *)
(***************************************************************************)
NoSteps ==
    [samples |-> 0, injected |-> FALSE, raw_first |-> NaN, gap_calibrated |-> FALSE, widened |-> {},
     scaled |-> FALSE, before_scale |-> [df |-> <<>>, bands |-> NoBands],
     before_limits |-> <<>>, raised |-> {}]

ForecastIdle ==
    /\ service = [device |-> "cpu", fast_cpu_mode |-> TRUE]
    /\ prep = NoPrep
    /\ stage = "idle"
    /\ history = [last_close |-> 0, volatility |-> 0]
    /\ instrument = [code |-> <<>>, name |-> <<>>, st |-> FALSE]
    /\ all_predictions = <<>>
    /\ bands = NoBands
    /\ pred_df = <<>>
    /\ steps = NoSteps
    /\ result = <<>>

\* self.predictor.predict returns a frame or raises (an incompatible GPU
\* raises at the first kernel the call launches)
ModelCallOutcomes == {"ok", "raises"}

\* lines 431-434: the requested count on the GPU, capped on the CPU
SampleCount(svc, sample_count) ==
    IF svc.device = "cpu"
    THEN IF svc.fast_cpu_mode THEN 1 ELSE Max(1, Min(sample_count, 3))
    ELSE sample_count

\* lines 850-856: the handler around the whole of predict_stock gives
\* {'success': False, 'error': ..., 'data': None}
Failed(st, call, dev) == [st EXCEPT !.raised = @ \cup {[call |-> call, device |-> dev]}]

\* lines 436-460: one predictor call per sample, its close column kept; the
\* call stands in no try of its own, what it raises ends the request
MonteCarlo ==
    /\ stage = "monte_carlo"
    /\ \E sample_count \in 1..MaxSamples, call \in ModelCallOutcomes :
           IF call = "raises"
           THEN /\ all_predictions' = <<>>
                /\ steps' = Failed(steps, "sample", service.device)
                /\ stage' = "failed"
           ELSE /\ all_predictions' \in [1..SampleCount(service, sample_count) ->
                                            [1..PredLen -> ModelCloses]]
                /\ steps' = steps
                /\ stage' = "statistics"
    /\ UNCHANGED <<cacheVars, service, prep, history, instrument, bands, pred_df, result>>

\* lines 462-488; the samples are not read again after the statistics
Aggregate ==
    /\ stage = "statistics"
    /\ LET flat  == StdBelow(all_predictions, history.volatility)
           paths == IF flat THEN Injected(all_predictions, history.volatility)
                    ELSE all_predictions
       IN  /\ all_predictions' = <<>>
           /\ bands' = Statistics(paths)
           /\ steps' = [steps EXCEPT !.samples = Len(all_predictions),
                                     !.injected = flat,
                                     !.raw_first = Statistics(paths).mean[1]]
    /\ stage' = "gap_calibration"
    /\ UNCHANGED <<cacheVars, service, prep, history, instrument, pred_df, result>>

\* lines 490-523
GapCalibrate ==
    /\ stage = "gap_calibration"
    /\ bands' = GapCalibrated(bands, history.last_close)
    /\ steps' = [steps EXCEPT !.gap_calibrated =
                    \/ GapAbove(bands.mean[1], history.last_close, 3)
                    \/ GapBelow(bands.mean[1], history.last_close, 3)]
    /\ stage' = "band_widening"
    /\ UNCHANGED <<cacheVars, service, prep, history, instrument, all_predictions, pred_df, result>>

\* lines 525-541
WidenBands ==
    /\ stage = "band_widening"
    /\ bands' = Widened(bands, history.volatility)
    /\ steps' = [steps EXCEPT !.widened = {i \in 1..PredLen : TooNarrow(bands, i)}]
    /\ stage' = "final_predict"
    /\ UNCHANGED <<cacheVars, service, prep, history, instrument, all_predictions, pred_df, result>>

\* line 584: the close of the final frame is replaced by pred_mean
FinalFrame(bars, pred_mean) ==
    [i \in 1..PredLen |->
        [open |-> bars[i].open, high |-> bars[i].high,
         low |-> bars[i].low, close |-> pred_mean[i],
         volume |-> bars[i].volume, amount |-> bars[i].amount]]

\* lines 548-584: the final predictor call.  Its except turns a "cuda"
\* service into a "cpu" one and calls once more, outside any try; on "cpu"
\* it raises again
FinalPredict ==
    /\ stage = "final_predict"
    /\ \E call \in ModelCallOutcomes, retry \in ModelCallOutcomes,
          bars \in [1..PredLen -> ModelBars] :
           IF call = "ok"
           THEN /\ pred_df' = FinalFrame(bars, bands.mean)
                /\ stage' = "scale_calibration"
                /\ UNCHANGED <<service, steps>>
           ELSE IF service.device = "cuda"
           THEN /\ service' = [service EXCEPT !.device = "cpu"]
                /\ IF retry = "ok"
                   THEN /\ pred_df' = FinalFrame(bars, bands.mean)
                        /\ steps' = Failed(steps, "final", "cuda")
                        /\ stage' = "scale_calibration"
                   ELSE /\ pred_df' = <<>>
                        /\ steps' = Failed(Failed(steps, "final", "cuda"), "retry", "cpu")
                        /\ stage' = "failed"
           ELSE /\ pred_df' = <<>>
                /\ steps' = Failed(steps, "final", service.device)
                /\ stage' = "failed"
                /\ UNCHANGED service
    /\ UNCHANGED <<cacheVars, prep, history, instrument, all_predictions, bands, result>>

\* lines 636-658
ScaleCalibrate ==
    /\ stage = "scale_calibration"
    /\ pred_df' = ScaleCalibrated(pred_df, bands, history.last_close)[1]
    /\ bands' = ScaleCalibrated(pred_df, bands, history.last_close)[2]
    /\ steps' = [steps EXCEPT
                    !.scaled = RatioOutOfRange(pred_df[1].close, history.last_close),
                    !.before_scale = [df |-> pred_df, bands |-> bands]]
    /\ stage' = "continuity_fix"
    /\ UNCHANGED <<cacheVars, service, prep, history, instrument, all_predictions, result>>

\* lines 660-661
SafePriceContinuityFix ==
    /\ stage = "continuity_fix"
    /\ pred_df' = safe_price_continuity_fix(pred_df, history.last_close, instrument.code)
    /\ stage' = "daily_limits"
    /\ UNCHANGED <<cacheVars, service, prep, history, instrument, all_predictions, bands, steps, result>>

\* lines 663-758
EnforceInline ==
    /\ stage = "daily_limits"
    /\ pred_df' = enforce_inline(pred_df, history.last_close, instrument)
    /\ steps' = [steps EXCEPT !.before_limits = pred_df]
    /\ stage' = "respond"
    /\ UNCHANGED <<cacheVars, service, prep, history, instrument, all_predictions, bands, result>>

\* lines 760-849
Respond ==
    /\ stage = "respond"
    /\ result' = format_predictions(pred_df, bands)
    /\ stage' = "done"
    /\ UNCHANGED <<cacheVars, service, prep, history, instrument, all_predictions, bands, pred_df, steps>>

(***************************************************************************)
(* State machine of the cache.                                             *)
(***************************************************************************)
\* fetch_data_akshare / fetch_data_yfinance and the two delta blocks of
\* refresh_stock_cache call normalize_stock_code inside their try: its
\* ValueError is caught there and the function gives None
Reachable(code, asked) == asked /\ normalize_stock_code(code).ok

\* a listing that finds no file
ListNothing(files) == {}

\* AkshareDataAdapter.list_available_stocks: the codes with a CSV in the directory
list_available_stocks(files) == {c \in DOMAIN files : files[c].exists}

\* the outcome of an operation for its caller
Outcome(r) ==
    IF r.fresh = "raised" THEN "raised"
    ELSE IF Len(r.ret) = 0 THEN "none"
    ELSE "ok"

\* predict_stock lines 388-396: without a frame the error response carries
\* the available codes; an exception gives the plain error of lines 850-856
ErrorHint(op, r, files) ==
    IF op = "predict" /\ Outcome(r) = "none"
    THEN [given |-> TRUE, available_stocks |-> list_available_stocks(files)]
    ELSE [given |-> FALSE, available_stocks |-> {}]

\* metadata of a prediction result (lines 838-845): last_refresh_source and
\* last_refresh_written exist from __init__ on, so getattr never falls back to
\* last_source / cache_written
Metadata(f) ==
    [data_source |-> f.last_refresh_source, cache_status |-> f.last_cache_status,
     cache_written |-> f.last_refresh_written]

\* the requests the API process may be sent
MaxRequests == 2

Requests == 1..MaxRequests

InitServer ==
    [pc |-> [r \in Requests |-> "new"],
     symbol |-> [r \in Requests |-> "none"],
     old |-> [r \in Requests |-> NoFile],
     inc |-> [r \in Requests |-> <<<<>>, <<>>>>],
     waited |-> {}]

InitFetcher ==
    [last_source |-> "none", last_cache_status |-> "none", cache_written |-> FALSE,
     last_refresh_source |-> "none", last_refresh_written |-> FALSE]

InitSync ==
    [op |-> "init", symbol |-> "none", period |-> "none", now |-> 0, pre |-> NoFile,
     ret |-> <<>>, calls |-> <<>>, fresh |-> "unchecked", merge |-> NoMerge,
     writes |-> 0, info |-> NoInfo, answers |-> <<<<>>, <<>>>>,
     outcome |-> "none", hint |-> [given |-> FALSE, available_stocks |-> {}],
     metadata |-> [data_source |-> "none", cache_status |-> "none",
                   cache_written |-> FALSE]]

\* one operation, start to return: the file, the fetcher's fields and a record
\* of the call (the file found, what the sources answered, what came back)
Done(op, s, p, ak, yf, r) ==
    /\ cache' = [cache EXCEPT ![s] = r.file]
    /\ fetcher' = r.fetcher
    /\ sync' = [op |-> op, symbol |-> s, period |-> p, now |-> today,
                pre |-> cache[s], ret |-> r.ret, calls |-> r.calls,
                fresh |-> r.fresh, merge |-> r.merge, writes |-> r.writes,
                info |-> r.info, answers |-> <<ak, yf>>,
                outcome |-> Outcome(r),
                hint |-> ErrorHint(op, r, [cache EXCEPT ![s] = r.file]),
                metadata |-> Metadata(r.fetcher)]
    /\ UNCHANGED <<today, forecastVars>>

\* what the sources may answer: the primary is asked unless the operation is
\* served from the cache, the secondary only after an empty primary
Primary(asked, lo, hi) == IF asked THEN Responses(lo, hi) ELSE {<<>>}

\* yfinance asked whatever akshare gave
SecondaryAlways(asked, ak, lo, hi) == IF asked THEN Responses(lo, hi) ELSE {<<>>}

Secondary(asked, ak, lo, hi) ==
    IF asked /\ Len(ak) = 0 THEN Responses(lo, hi) ELSE {<<>>}

FetchAsks(file, now) ==
    /\ ~FreshnessRaises(file)
    /\ ~(is_cache_fresh(file, now) /\ Len(load_from_cache(file).df) > 0)

FetchStockData(s, p) ==
    \E ak \in Primary(Reachable(s, FetchAsks(cache[s], today)),
                      today - AkshareDays(p), today) :
      \E yf \in Secondary(Reachable(s, FetchAsks(cache[s], today)), ak,
                          today - YfinanceDays(p), today) :
        /\ Done("fetch", s, p, ak, yf,
                fetch_stock_data(fetcher, cache[s], today, p, ak, yf) @@ [info |-> NoInfo])
        /\ UNCHANGED server

RefreshAsks(file, now) ==
    LET old == load_from_cache(file)
    IN  IF Len(old.df) > 0 THEN MaxDate(old.df) + 1 <= now ELSE FetchAsks(file, now)

\* first date a refresh asks the sources for
RefreshStart(file, now, days) ==
    LET old == load_from_cache(file)
    IN  IF Len(old.df) > 0 THEN MaxDate(old.df) + 1 ELSE now - days

RefreshStockCache(s, p) ==
    \E ak \in Primary(Reachable(s, RefreshAsks(cache[s], today)),
                      RefreshStart(cache[s], today, AkshareDays(p)), today) :
      \E yf \in Secondary(Reachable(s, RefreshAsks(cache[s], today)), ak,
                          RefreshStart(cache[s], today, YfinanceDays(p)), today) :
        /\ Done("refresh", s, p, ak, yf,
                refresh_stock_cache(fetcher, cache[s], today, p, ak, yf))
        /\ UNCHANGED server

PredictAsks(file, now, p) ==
    LET df0 == load_from_cache(file).df
    IN  IF Len(df0) > 0
        THEN SpanDays(df0) * 10 < ExpectedDays(p) * 8 /\ FetchAsks(file, now)
        ELSE FetchAsks(file, now)

PredictStock(s, p) ==
    \E ak \in Primary(Reachable(s, PredictAsks(cache[s], today, p)),
                      today - AkshareDays(p), today) :
      \E yf \in Secondary(Reachable(s, PredictAsks(cache[s], today, p)), ak,
                          today - YfinanceDays(p), today) :
        /\ Done("predict", s, p, ak, yf,
                predict_data(fetcher, cache[s], today, p, ak, yf))
        /\ UNCHANGED server

Tick ==
    /\ today < MaxDay
    /\ today' = today + 1
    /\ UNCHANGED <<cache, fetcher, sync, server, forecastVars>>

CacheInit ==
    /\ today = StartDay
    /\ cache = [s \in Codes |-> NoFile]
    /\ fetcher = InitFetcher
    /\ sync = InitSync
    /\ server = InitServer
    /\ ForecastIdle

CacheNext ==
    \/ Tick
    \/ \E s \in Symbols, p \in Periods : FetchStockData(s, p)
    \/ \E s \in Symbols, p \in Periods : RefreshStockCache(s, p)
    \/ \E s \in Symbols, p \in Periods : PredictStock(s, p)

Spec == CacheInit /\ [][CacheNext]_vars

\* a cache file loses its rows outside the program (truncated to its header)
DamageCache(s) ==
    /\ cache[s].exists
    /\ Len(cache[s].rows) > 0
    /\ cache' = [cache EXCEPT ![s] = [exists |-> TRUE, rows |-> <<>>]]
    /\ UNCHANGED <<today, fetcher, sync, server, forecastVars>>

\* the requests of one day on every code of the directory
InstrumentsNext ==
    \/ \E s \in Codes, p \in Periods : FetchStockData(s, p)
    \/ \E s \in Codes, p \in Periods : RefreshStockCache(s, p)
    \/ \E s \in Codes, p \in Periods : PredictStock(s, p)
    \/ \E s \in Codes : DamageCache(s)

SpecInstruments == CacheInit /\ [][InstrumentsNext]_vars

(***************************************************************************)
(* POST /refresh/{stock_code} (api.py lines 197-212).  The API runs in one *)
(* uvicorn process; refresh_stock is an "async def" that calls             *)
(* refresh_stock_cache without any await, so the event loop runs one       *)
(* handler from its first line to its return before it starts the next.    *)
(* The handler is taken in three steps, as refresh_stock_cache does them:  *)
(* load the file (line 257), ask the sources for the delta (lines          *)
(* 276-322), merge and save (lines 324-356).                               *)
(***************************************************************************)
\* instruments with a cache the requests refresh
Served == {"600000", "000001"}

\* an event loop that would start a handler while another is running
LoopAlwaysFree == TRUE

\* no handler is between its first line and its return
LoopFree == \A r \in Requests : server.pc[r] \notin {"loaded", "fetched"}

\* the server accepts a request; its handler is a task waiting for the loop
Arrive(r, s) ==
    /\ server.pc[r] = "new"
    /\ server' = [server EXCEPT !.pc[r] = "queued", !.symbol[r] = s]
    /\ UNCHANGED <<today, cache, fetcher, sync, forecastVars>>

\* line 257: old = self._load_from_cache(stock_code)
RefreshLoad(r) ==
    /\ server.pc[r] = "queued"
    /\ LoopFree
    /\ server' = [server EXCEPT
                     !.pc[r] = "loaded",
                     !.old[r] = cache[server.symbol[r]],
                     !.waited = @ \cup {q \in Requests \ {r} : server.pc[q] = "queued"}]
    /\ UNCHANGED <<today, cache, fetcher, sync, forecastVars>>

\* lines 263-322: the delta of the sources, asked from the loaded last date on
RefreshFetch(r) ==
    /\ server.pc[r] = "loaded"
    /\ LET s    == server.symbol[r]
           old  == server.old[r]
           asks == Reachable(s, RefreshAsks(old, today))
       IN  \E ak \in Primary(asks, RefreshStart(old, today, AkshareDays("1y")), today) :
             \E yf \in Secondary(asks, ak, RefreshStart(old, today, YfinanceDays("1y")),
                                 today) :
               server' = [server EXCEPT !.pc[r] = "fetched", !.inc[r] = <<ak, yf>>]
    /\ UNCHANGED <<today, cache, fetcher, sync, forecastVars>>

\* lines 324-356: merge the delta into the frame loaded at line 257, write
\* the file when rows came, set the fetcher's fields, return
RefreshSave(r) ==
    /\ server.pc[r] = "fetched"
    /\ LET s   == server.symbol[r]
           ak  == server.inc[r][1]
           yf  == server.inc[r][2]
           res == refresh_stock_cache(fetcher, server.old[r], today, "1y", ak, yf)
       IN  Done("refresh", s, "1y", ak, yf,
                [res EXCEPT !.file = IF res.writes > 0 THEN res.file ELSE cache[s]])
    /\ server' = [server EXCEPT !.pc[r] = "done"]

\* the API process some days after both instruments were first fetched
ServerInit ==
    /\ today = MaxDay
    /\ cache = [s \in Codes |->
                  IF s \in Served THEN save_to_cache(<<Row(StartDay, 1)>>) ELSE NoFile]
    /\ fetcher = [InitFetcher EXCEPT !.last_source = "akshare",
                                     !.last_cache_status = "miss",
                                     !.cache_written = TRUE]
    /\ sync = InitSync
    /\ server = InitServer
    /\ ForecastIdle

ServerNext ==
    \/ \E r \in Requests, s \in Served : Arrive(r, s)
    \/ \E r \in Requests : RefreshLoad(r)
    \/ \E r \in Requests : RefreshFetch(r)
    \/ \E r \in Requests : RefreshSave(r)

SpecServer == ServerInit /\ [][ServerNext]_vars

\* predict_stock lines 398-427 on the frame the data prologue gave: the
\* request is turned down when validate_data fails, else prepare_data cuts
\* the model's input and makes the target dates
PrepareData ==
    /\ sync.op = "predict" /\ sync.outcome = "ok"
    /\ \E lookback \in 1..MaxLookback, pred_len \in 1..PredLen :
           LET df       == sync.ret
               min_days == Max(MinDays, Min(lookback + 1, Len(df)))
               p        == prepare_data(df, EffectiveLookback(service, lookback), pred_len)
           IN  prep' = IF validate_data(df, min_days)
                       THEN [ok |-> TRUE, now |-> sync.now, lookback |-> lookback,
                             pred_len |-> pred_len, df |-> df, x_df |-> p.x_df,
                             y_timestamp |-> p.y_timestamp]
                       ELSE [NoPrep EXCEPT !.now = sync.now, !.lookback = lookback,
                                           !.pred_len = pred_len, !.df = df]
    /\ UNCHANGED <<cacheVars, service, stage, history, instrument, all_predictions,
                   bands, pred_df, steps, result>>

MaxCacheRows == 3   \* rows of a cache file found at start

RECURSIVE RowsOf(_)
RowsOf(dates) ==
    IF dates = {} THEN <<>>
    ELSE LET d == CHOOSE x \in dates : \A y \in dates : x <= y
         IN  <<Row(d, 1)>> \o RowsOf(dates \ {d})

\* the cache files a starting service can find: what earlier runs saved,
\* the trading days from a first to a last one, none after now
TradingDays(lo, hi) == {d \in lo..hi : IsTradingDay(d)}

CachedFiles(now) ==
    {NoFile} \cup
    {save_to_cache(RowsOf(TradingDays(span[1], span[2]))) :
        span \in {x \in TradingDays(StartDay - YearDays, now) \X
                         TradingDays(StartDay - YearDays, now) :
                     Cardinality(TradingDays(x[1], x[2])) \in 1..MaxCacheRows}}

\* lines 52-63: the device asked for, "cpu" where CUDA is missing; line 54:
\* FAST_CPU_MODE of the environment
Services == [device : {"cuda", "cpu"}, fast_cpu_mode : BOOLEAN]

\* a prediction request past data acquisition, validation and prepare_data
ForecastStart(services, histories, instruments) ==
    /\ today = StartDay
    /\ cache = [s \in Codes |-> NoFile]
    /\ fetcher = InitFetcher
    /\ sync = InitSync
    /\ server = InitServer
    /\ service \in services
    /\ prep = NoPrep
    /\ stage = "monte_carlo"
    /\ history \in histories
    /\ instrument \in instruments
    /\ all_predictions = <<>>
    /\ bands = NoBands
    /\ pred_df = <<>>
    /\ steps = NoSteps
    /\ result = <<>>

ForecastNext ==
    \/ MonteCarlo
    \/ Aggregate
    \/ GapCalibrate
    \/ WidenBands
    \/ FinalPredict
    \/ ScaleCalibrate
    \/ SafePriceContinuityFix
    \/ EnforceInline
    \/ Respond

\* the pipeline of a CPU service without the fast mode, on every history and
\* instrument
ForecastInit ==
    ForecastStart({[device |-> "cpu", fast_cpu_mode |-> FALSE]}, Histories, Instruments)

SpecForecast == ForecastInit /\ [][ForecastNext]_vars

\* the same request on every kind of service, for one history and instrument
DeviceInit ==
    ForecastStart(Services,
                  {h \in Histories : h.last_close = 708 * Cent},
                  {ins \in Instruments : ins.code = <<"6", "0", "0", "0", "0", "0">>})

SpecDevice == DeviceInit /\ [][ForecastNext]_vars

\* a service just started, over the cache directory as earlier runs left
\* it, and its first prediction request
RequestInit ==
    /\ today = MaxDay
    /\ \E file \in CachedFiles(today) :
           cache = [s \in Codes |-> IF s \in Symbols THEN file ELSE NoFile]
    /\ fetcher = InitFetcher
    /\ sync = InitSync
    /\ server = InitServer
    /\ service \in Services
    /\ prep = NoPrep
    /\ stage = "idle"
    /\ history = [last_close |-> 0, volatility |-> 0]
    /\ instrument = [code |-> <<>>, name |-> <<>>, st |-> FALSE]
    /\ all_predictions = <<>>
    /\ bands = NoBands
    /\ pred_df = <<>>
    /\ steps = NoSteps
    /\ result = <<>>

FirstRequest(s, p) == sync.op = "init" /\ PredictStock(s, p)

RequestNext ==
    \/ \E s \in Symbols, p \in Periods : FirstRequest(s, p)
    \/ PrepareData

SpecRequest == RequestInit /\ [][RequestNext]_vars


(***************************************************************************)
(* Properties of the cache.                                                *)
(***************************************************************************)
RowsAt(s, d) ==
    LET OnDay(r) == r.date = d
    IN  SelectSeq(s, OnDay)

Ascending(s) == \A i \in 1..Len(s) - 1 : s[i].date <= s[i + 1].date

StrictlyAscending(s) == \A i \in 1..Len(s) - 1 : s[i].date < s[i + 1].date

\* C5: whenever fetch_stock_data or refresh_stock_cache merges an old and a
\* new frame, the merged frame holds, for every date of new, exactly new's row,
\* for every date only in old, old's row, no other date, and is sorted by date.
C5_MergePrecedence ==
    sync.merge.done =>
        LET old == sync.merge.old
            new == sync.merge.new
            out == sync.merge.out
        IN  /\ \A d \in SeqDates(new) : RowsAt(out, d) = RowsAt(new, d)
            /\ \A d \in SeqDates(old) \ SeqDates(new) : RowsAt(out, d) = RowsAt(old, d)
            /\ SeqDates(out) = SeqDates(old) \cup SeqDates(new)
            /\ Ascending(out)

\* a merge where a date of both frames carries different rows and another date
\* is only in old
C5_Witness ==
    /\ sync.merge.done
    /\ \E d \in SeqDates(sync.merge.old) \cap SeqDates(sync.merge.new) :
           RowsAt(sync.merge.old, d) # RowsAt(sync.merge.new, d)
    /\ SeqDates(sync.merge.old) \ SeqDates(sync.merge.new) # {}

\* C6: merging a series with itself yields the same series: no duplicate
\* dates, the same row count.
C6_MergeIdempotent ==
    (sync.merge.done /\ sync.merge.new = sync.merge.old) =>
        /\ sync.merge.out = sync.merge.old
        /\ StrictlyAscending(sync.merge.out)
        /\ Len(sync.merge.out) = Len(sync.merge.old)

C6_Witness ==
    /\ sync.merge.done
    /\ sync.merge.new = sync.merge.old
    /\ Len(sync.merge.old) > 0

\* C7: after any sequence of fetch_stock_data / refresh_stock_cache calls the
\* series in the cache file and the series returned are strictly increasing by
\* date, whatever order the remote sources return rows in.
C7_CacheStrictlyIncreasing ==
    /\ \A s \in Symbols : StrictlyAscending(cache[s].rows)
    /\ StrictlyAscending(sync.ret)

\* C8: every date in an instrument's cache before an operation is still in the
\* cache after it.
C8_CachedDatesOnlyGrow ==
    [][\A s \in Symbols : SeqDates(cache[s].rows) \subseteq SeqDates(cache'[s].rows)]_cacheVars

\* an operation rewrote a cache file that already held rows, with rows for
\* dates the file did not hold and without rows for some dates it held
C8_Witness ==
    /\ sync.writes > 0
    /\ sync.merge.done
    /\ SeqDates(sync.merge.new) \ SeqDates(sync.pre.rows) # {}
    /\ SeqDates(sync.pre.rows) \ SeqDates(sync.merge.new) # {}

\* the latest non-weekend day up to d
LatestWeekday(d) ==
    CHOOSE r \in (d - 6)..d :
        /\ IsTradingDay(r)
        /\ \A e \in (r + 1)..d : ~IsTradingDay(e)

LastRowDate(file) == file.rows[Len(file.rows)].date

\* C9: for a cache file whose last row carries date L, is_fresh is true when L
\* is today and today is a weekday, is true exactly when L is at or after the
\* latest non-weekend day up to today, and is false when L is 3 or more days
\* before that day.
C9_FreshRule ==
    (sync.fresh # "unchecked" /\ sync.pre.exists) =>
        LET last == LastRowDate(sync.pre)
            ref  == LatestWeekday(sync.now)
        IN  /\ (last = sync.now /\ IsTradingDay(sync.now)) => sync.fresh = "fresh"
            /\ (sync.fresh = "fresh") <=> (last >= ref)
            /\ (last + 3 <= ref) => sync.fresh = "stale"

\* a fresh verdict on a weekend day for a cache that ends on the Friday
C9_Witness ==
    /\ sync.fresh = "fresh"
    /\ sync.pre.exists
    /\ ~IsTradingDay(sync.now)
    /\ LastRowDate(sync.pre) < sync.now

\* a fetch_stock_data call on the Monday after the Friday the cache ends on
FridayCacheOnMonday ==
    /\ sync.op = "fetch"
    /\ sync.pre.exists
    /\ Weekday(LastRowDate(sync.pre)) = Saturday - 1
    /\ sync.now = LastRowDate(sync.pre) + 3

\* C10 as stated: with the cache's last date a Friday and the request made on
\* the following Monday, is_fresh is true and no source is called.
C10_FridayCacheFreshOnMonday ==
    FridayCacheOnMonday => (sync.fresh = "fresh" /\ sync.calls = <<>>)

\* C10 amended: on that Monday is_fresh is false and the primary source is
\* called; a request on the Saturday or Sunday in between finds the cache fresh
\* and calls no source.
C10_FridayCacheStaleOnMonday ==
    /\ FridayCacheOnMonday =>
           (sync.fresh = "stale" /\ Len(sync.calls) > 0 /\ sync.calls[1] = "akshare")
    /\ (/\ sync.op = "fetch"
        /\ sync.pre.exists
        /\ Weekday(LastRowDate(sync.pre)) = Saturday - 1
        /\ sync.now \in {LastRowDate(sync.pre) + 1, LastRowDate(sync.pre) + 2})
           => (sync.fresh = "fresh" /\ sync.calls = <<>>)

C10_Witness == FridayCacheOnMonday /\ sync.fresh = "stale"


(***************************************************************************)
(* Properties of the forecast pipeline.                                    *)
(***************************************************************************)
\* x is inside the band of prev for a limit of lim percent, quantized to cents:
\* at or above the least cent multiple >= max(prev * (1 - lim), 0.01) and at or
\* below the greatest cent multiple <= prev * (1 + lim)
InQuantizedBand(x, prev, lim) ==
    /\ IsFinite(x)
    /\ FloorCent(x) * 100 >= prev * (100 - lim)
    /\ FloorCent(x) >= Cent
    /\ CeilCent(x) * 100 <= prev * (100 + lim)

PrevClose(df, i) == IF i = 1 THEN history.last_close ELSE df[i - 1].close

\* C1: after the inline daily-limit pass of predict_stock, on every forecast
\* day low <= min(open, close) <= max(open, close) <= high, each of open, high,
\* low and close lies in the quantized daily-limit band of the previous
\* corrected close (the last historical close for the first day), and the
\* close moves by no more than limit * previous close.
C1_EnforcedWithinBand ==
    stage \in {"respond", "done"} =>
        \A i \in 1..Len(pred_df) :
            LET row  == pred_df[i]
                prev == PrevClose(pred_df, i)
                lim  == InlineLimit(instrument)
            IN  /\ \A x \in {row.open, row.high, row.low, row.close} :
                       InQuantizedBand(x, prev, lim)
                /\ row.low <= Min(row.open, row.close)
                /\ Max(row.open, row.close) <= row.high
                /\ Abs(row.close - prev) * 100 <= lim * prev

\* the pass met a frame with a non-finite value, a high below the low and a
\* close outside the band of the previous day's close
C1_Witness ==
    /\ stage = "respond"
    /\ \E i \in 1..PredLen : ~IsFinite(steps.before_limits[i].open)
    /\ \E i \in 1..PredLen :
           Lt(steps.before_limits[i].high, steps.before_limits[i].low)
    /\ \E i \in 1..PredLen :
           /\ IsFinite(steps.before_limits[i].close)
           /\ ~InQuantizedBand(steps.before_limits[i].close, PrevClose(pred_df, i),
                               InlineLimit(instrument))

BandFinite(r) ==
    /\ IsFinite(r.close_lower) /\ IsFinite(r.close_upper)
    /\ IsFinite(r.close_min) /\ IsFinite(r.close_max)

\* C2: in every returned prediction, at every step with finite band values,
\* close_lower <= median <= close_upper, close_min <= close_lower and
\* close_max >= close_upper.
C2_BandContainment ==
    stage = "done" =>
        \A i \in 1..Len(result) :
            (BandFinite(result[i]) /\ IsFinite(bands.mean[i])) =>
                /\ result[i].close_lower <= bands.mean[i]
                /\ bands.mean[i] <= result[i].close_upper
                /\ result[i].close_min <= result[i].close_lower
                /\ result[i].close_max >= result[i].close_upper

\* C3: in every returned prediction row with finite close_lower and
\* close_upper, close_lower <= close <= close_upper.
C3_CloseWithinBand ==
    stage = "done" =>
        \A i \in 1..Len(result) :
            (IsFinite(result[i].close_lower) /\ IsFinite(result[i].close_upper)) =>
                /\ result[i].close_lower <= result[i].close
                /\ result[i].close <= result[i].close_upper

\* ratio = first / last_close lies in [0.5, 1.5]
RatioInRange(first, last_close) ==
    /\ IsFinite(first)
    /\ first * 2 >= last_close
    /\ first * 2 <= last_close * 3

\* every price of the frame and every band array is its value before the
\* calibration times last_close / first
ScaledBy(last_close, first) ==
    LET before == steps.before_scale
    IN  /\ \A i \in 1..Len(pred_df) :
               pred_df[i] = ScaleRow(before.df[i], last_close, first)
        /\ bands.upper = ScaleBy(before.bands.upper, last_close, first)
        /\ bands.lower = ScaleBy(before.bands.lower, last_close, first)
        /\ bands.max = ScaleBy(before.bands.max, last_close, first)
        /\ bands.min = ScaleBy(before.bands.min, last_close, first)

\* C4 as stated: after the first-step scale calibration the ratio of the first
\* forecast close to the last close lies in [0.5, 1.5], and when it was outside
\* that range all prices and band arrays were multiplied by last close / first
\* close.
C4_RatioWithinHalf ==
    (stage = "continuity_fix" /\ Len(pred_df) > 0) =>
        /\ RatioInRange(pred_df[1].close, history.last_close)
        /\ ~RatioInRange(steps.before_scale.df[1].close, history.last_close)
               => ScaledBy(history.last_close, steps.before_scale.df[1].close)

\* C4 amended: after the first-step scale calibration a finite first close is
\* within [0.5, 1.5] of the last close; the gap calibration has already put it
\* there, and the scale calibration rescales nothing: frame and bands are what
\* they were before it, and a NaN first close stays NaN.
C4_FiniteRatioWithinHalf ==
    (stage = "continuity_fix" /\ Len(pred_df) > 0) =>
        /\ IsFinite(steps.before_scale.df[1].close)
               => RatioInRange(pred_df[1].close, history.last_close)
        /\ ~IsFinite(steps.before_scale.df[1].close) => ~IsFinite(pred_df[1].close)
        /\ ~steps.scaled
        /\ pred_df = steps.before_scale.df
        /\ bands = steps.before_scale.bands

\* the median of the samples started outside [0.5, 1.5] of the last close
C4_Witness ==
    /\ stage = "continuity_fix"
    /\ IsFinite(steps.raw_first)
    /\ ~RatioInRange(steps.raw_first, history.last_close)
    /\ steps.gap_calibrated
    /\ IsFinite(pred_df[1].close)

(***************************************************************************)
(* Properties of the sync operations.                                      *)
(***************************************************************************)
\* the is_fresh rule on the file an operation found
FreshByRule(file, now) ==
    file.exists /\ Len(file.rows) > 0 /\ LastRowDate(file) >= LatestWeekday(now)

\* C11: whenever fetch_stock_data or refresh_stock_cache finds a cache that is
\* fresh by the is_fresh rule, it returns the cached series, calls neither
\* remote source and leaves the file as it is.
C11_FreshCacheServedLocally ==
    (sync.op \in {"fetch", "refresh"} /\ FreshByRule(sync.pre, sync.now)) =>
        /\ sync.calls = <<>>
        /\ sync.ret = SortIndex(sync.pre.rows)
        /\ cache[sync.symbol] = sync.pre

\* a cache file with rows that the is_fresh rule calls stale
StaleByRule(file, now) ==
    file.exists /\ Len(file.rows) > 0 /\ ~FreshByRule(file, now)

\* both sources were asked and neither gave a row
NoRowsObtained ==
    sync.calls = <<"akshare", "yfinance">> /\ sync.answers = <<<<>>, <<>>>>

\* C12: when fetch_stock_data or refresh_stock_cache finds a stale cache and
\* neither source gives a row, the operation does not fail: it returns the
\* cached series, leaves the file as it was and names 'cache' as the source; a
\* refresh reports success with source 'cache' and zero rows added.
C12_StaleCacheKeptWhenSourcesEmpty ==
    (sync.op \in {"fetch", "refresh"} /\ StaleByRule(sync.pre, sync.now) /\ NoRowsObtained) =>
        /\ Len(sync.ret) > 0
        /\ sync.ret = SortIndex(sync.pre.rows)
        /\ cache[sync.symbol] = sync.pre
        /\ sync.writes = 0
        /\ fetcher.last_source = "cache"
        /\ sync.op = "refresh" =>
               /\ sync.info.ok
               /\ sync.info.source = "cache"
               /\ sync.info.has_rows_added
               /\ sync.info.rows_added = 0

C12_Witness ==
    /\ sync.op = "refresh"
    /\ StaleByRule(sync.pre, sync.now)
    /\ NoRowsObtained
    /\ sync.info.source = "cache"
    /\ sync.ret = SortIndex(sync.pre.rows)

(* Properties of the requests on the whole directory. *)
\* the operation found no cache file for a code of a known board
NoCacheFound ==
    /\ sync.op \in {"fetch", "refresh", "predict"}
    /\ normalize_stock_code(sync.symbol).ok
    /\ ~sync.pre.exists

C14_InvalidSymbolSurfaced ==
    (sync.op \in {"fetch", "refresh", "predict"} /\ ~normalize_stock_code(sync.symbol).ok) =>
        /\ sync.outcome = "raised"
        /\ sync.calls \in {<<>>, <<"akshare">>}
        /\ ~sync.hint.given

\* the operation found a cache file that holds no data row
DamagedCacheFound ==
    /\ sync.op \in {"fetch", "refresh", "predict"}
    /\ sync.pre.exists
    /\ Len(sync.pre.rows) = 0

\* C15: a cache file that cannot be read as data counts as a cache miss: the
\* operation raises nothing and goes on to ask the sources.
C15_DamagedCacheIsAMiss ==
    DamagedCacheFound =>
        /\ sync.outcome # "raised"
        /\ sync.calls # <<>>

(* Properties of the inline pass on bad values. *)
\* C16: the inline pass gives back as many days as it got; every price is
\* finite and at least 0.01, every volume is a number >= 0 and every amount is
\* close * volume; an open or close that came in non-finite leaves as the
\* previous corrected close, to the cent.
C16_PassRepairsEveryRow ==
    stage \in {"respond", "done"} =>
        /\ Len(pred_df) = Len(steps.before_limits)
        /\ \A i \in 1..Len(pred_df) :
               /\ \A x \in {pred_df[i].open, pred_df[i].high, pred_df[i].low,
                            pred_df[i].close} : IsFinite(x) /\ x >= Cent
               /\ ~pred_df[i].volume.nan
               /\ pred_df[i].volume.x >= 0
               /\ pred_df[i].amount = pred_df[i].close * pred_df[i].volume.x
               /\ ~IsFinite(steps.before_limits[i].close) =>
                      pred_df[i].close = RoundCent(PrevClose(pred_df, i))
               /\ ~IsFinite(steps.before_limits[i].open) =>
                      pred_df[i].open = RoundCent(PrevClose(pred_df, i))

\* a frame with a NaN close, a NaN open, a NaN volume and a negative volume
C16_Witness ==
    /\ stage = "done"
    /\ \E i \in 1..Len(pred_df) : ~IsFinite(steps.before_limits[i].close)
    /\ \E i \in 1..Len(pred_df) : ~IsFinite(steps.before_limits[i].open)
    /\ \E i \in 1..Len(pred_df) : steps.before_limits[i].volume.nan
    /\ \E i \in 1..Len(pred_df) :
           ~steps.before_limits[i].volume.nan /\ steps.before_limits[i].volume.x < 0

\* the limit in percent the exchange rules give the instrument
PolicyLimit(ins) ==
    IF ins.st THEN 5
    ELSE IF StartsWith(ins.code, <<"6", "8", "8">>) \/ StartsWith(ins.code, <<"3", "0", "0">>)
         THEN 20
    ELSE 10

\* C17: on every request both passes use the limit of the instrument: 5% for a
\* special-treatment instrument, 20% for codes 688... and 300..., 10% otherwise,
\* with or without stock_info; every returned close is inside that band of the
\* previous close.
C17_LimitFollowsPolicy ==
    stage \in {"respond", "done"} =>
        /\ get_daily_limit(instrument.code) = PolicyLimit(instrument)
        /\ InlineLimit(instrument) = PolicyLimit(instrument)
        /\ \A i \in 1..Len(pred_df) :
               InQuantizedBand(pred_df[i].close, PrevClose(pred_df, i),
                               PolicyLimit(instrument))

\* C18: every successful refresh_stock_cache result carries source, last_date,
\* rows and rows_added; last_date is the latest date of the resulting series,
\* rows its length, and rows_added the number of dates of the resulting cache
\* that the cache did not hold before the call.
C18_RefreshResultComplete ==
    (sync.op = "refresh" /\ sync.info.ok) =>
        /\ sync.info.source \in {"akshare", "yfinance", "cache"}
        /\ sync.info.last_date = MaxDate(sync.ret)
        /\ sync.info.rows = Len(sync.ret)
        /\ sync.info.has_rows_added
        /\ sync.info.rows_added =
               Cardinality(SeqDates(cache[sync.symbol].rows) \ SeqDates(sync.pre.rows))

\* where the rows an operation came back with were produced: the source that
\* answered when the operation wrote the file, else the cache
ActualSource ==
    IF sync.writes = 0 THEN "cache"
    ELSE IF Len(sync.answers[1]) > 0 THEN "akshare"
    ELSE "yfinance"

\* C19: the source in a refresh result, and data_source / cache_written in the
\* metadata of a prediction, describe the data of that same call.
C19_ProvenanceOfThisCall ==
    /\ (sync.op = "refresh" /\ sync.info.ok) => sync.info.source = ActualSource
    /\ (sync.op = "predict" /\ sync.outcome = "ok") =>
           /\ sync.metadata.data_source = ActualSource
           /\ sync.metadata.cache_written = (sync.writes > 0)

(* Properties of concurrent refresh requests. *)
\* the rows a finished request obtained from the sources
Fetched(r) == server.inc[r][1] \o server.inc[r][2]

\* the requests inside their load-merge-save section
InSection == {r \in Requests : server.pc[r] \in {"loaded", "fetched"}}

RaisedOnGpuOnly ==
    /\ steps.raised # {}
    /\ \A f \in steps.raised : f.device = "cuda"

\* C21: whenever the only calls that raised ran on the GPU, the service is
\* on the CPU afterwards and the request has not failed
C21_GpuFailureFallsBack ==
    RaisedOnGpuOnly => service.device = "cpu" /\ stage # "failed"

(***************************************************************************)
(* C22: the target dates of a prediction are exactly pred_len business     *)
(* days, strictly increasing, each later than the last history date and    *)
(* later than the day of the request.                                      *)
(***************************************************************************)
\* what holds of the target dates of an ascending history, whatever its age
TargetDatesFollowHistory ==
    (prep.ok /\ StrictlyAscending(prep.df)) =>
        /\ Len(prep.y_timestamp) = prep.pred_len
        /\ \A i \in 1..Len(prep.y_timestamp) : IsTradingDay(prep.y_timestamp[i])
        /\ \A i \in 1..Len(prep.y_timestamp) - 1 :
               prep.y_timestamp[i] < prep.y_timestamp[i + 1]
        /\ \A i \in 1..Len(prep.y_timestamp) : prep.y_timestamp[i] > MaxDate(prep.df)

\* C22: the target dates follow the history and every one of them is after
\* the day of the request
C22_TargetDatesAreFuture ==
    /\ TargetDatesFollowHistory
    /\ (prep.ok /\ StrictlyAscending(prep.df)) =>
           \A i \in 1..Len(prep.y_timestamp) : prep.y_timestamp[i] > prep.now

(***************************************************************************)
(* C23: the history table passed to the model calls of an accepted request *)
(* has at most max_context rows.                                           *)
(***************************************************************************)
\* C23: x_df, the table every model call of the request receives, is never
\* longer than max_context
C23_HistoryWithinContext ==
    prep.ok => Len(prep.x_df) <= MaxContext

(***************************************************************************)
(* C24: a stale cache is brought up to date by a delta: the sources are    *)
(* asked for the dates after the last cached one only, the delta is merged *)
(* into the cached series, the merged series is saved and returned; a      *)
(* prediction never reads a stale cache without that.                      *)
(***************************************************************************)
\* the rows the two sources answered with
AnswerDates == SeqDates(sync.answers[1]) \cup SeqDates(sync.answers[2])

\* the operation asked the sources, and nothing they answered is dated on or
\* before the last cached date
OnlyDeltaAnswered ==
    /\ Len(sync.calls) > 0
    /\ \A d \in AnswerDates : d > MaxDate(sync.pre.rows)

\* what the sources gave is in the series that is saved and returned, with
\* all that was cached
DeltaMergedAndSaved ==
    AnswerDates # {} =>
        /\ sync.writes = 1
        /\ cache[sync.symbol].rows = sync.ret
        /\ SeqDates(sync.ret) = SeqDates(sync.pre.rows) \cup AnswerDates

\* a stale cache file whose rows are in ascending order of date
StaleCacheFound ==
    StaleByRule(sync.pre, sync.now) /\ StrictlyAscending(sync.pre.rows)

\* refresh_stock_cache does on a stale cache what C24 says
RefreshSyncsByDelta ==
    (sync.op = "refresh" /\ StaleCacheFound) =>
        OnlyDeltaAnswered /\ DeltaMergedAndSaved

\* C24: whenever fetch_stock_data, refresh_stock_cache or the data prologue
\* of predict_stock finds a stale cache, the sources are asked for the delta
\* only, and what they give is merged, saved and returned
C24_StaleCacheSyncedByDelta ==
    (sync.op \in {"fetch", "refresh", "predict"} /\ StaleCacheFound) =>
        OnlyDeltaAnswered /\ DeltaMergedAndSaved

(***************************************************************************)
(* C25: a sync writes the cache file exactly once when it produced new     *)
(* rows, and not at all otherwise.                                         *)
(***************************************************************************)
\* the dates the sources gave that the cache file did not hold
NewDates == AnswerDates \ SeqDates(sync.pre.rows)

\* one write whenever a new date came, never more than one
WrittenOnceForNewRows ==
    sync.op \in {"fetch", "refresh", "predict"} =>
        /\ sync.writes <= 1
        /\ NewDates # {} => sync.writes = 1

\* C25: the operation wrote the file once if the sources gave a date the
\* file did not hold, and did not write it otherwise
C25_OneWriteIffNewRows ==
    sync.op \in {"fetch", "refresh", "predict"} =>
        sync.writes = IF NewDates # {} THEN 1 ELSE 0

(***************************************************************************)
(* C26: in a fetch the primary source is asked first and the secondary     *)
(* only after an empty or failed primary; no data comes back only when     *)
(* both failed, and the source tag names the source of the rows returned.  *)
(***************************************************************************)
\* the source the returned rows came from
RowsCameFrom ==
    IF Len(sync.answers[1]) > 0 THEN "akshare"
    ELSE IF Len(sync.answers[2]) > 0 THEN "yfinance"
    ELSE "cache"

\* C26: fetch_stock_data and refresh_stock_cache ask akshare before yfinance,
\* yfinance only when akshare gave no row; they come back without data only
\* when both gave none, and otherwise last_source (and the source of a
\* refresh result) is the source whose rows came back.
C26_PrimaryThenSecondary ==
    sync.op \in {"fetch", "refresh"} =>
        /\ sync.calls \in {<<>>, <<"akshare">>, <<"akshare", "yfinance">>}
        /\ sync.calls = <<>> => sync.answers = <<<<>>, <<>>>>
        /\ sync.calls = <<"akshare">> => Len(sync.answers[1]) > 0 /\ sync.answers[2] = <<>>
        /\ sync.calls = <<"akshare", "yfinance">> => sync.answers[1] = <<>>
        /\ sync.ret = <<>> => NoRowsObtained
        /\ sync.ret # <<>> =>
               /\ fetcher.last_source = RowsCameFrom
               /\ sync.op = "refresh" => sync.info.source = RowsCameFrom
               /\ RowsCameFrom = "akshare" => SeqDates(sync.answers[1]) \subseteq SeqDates(sync.ret)
               /\ RowsCameFrom = "yfinance" => SeqDates(sync.answers[2]) \subseteq SeqDates(sync.ret)
               /\ RowsCameFrom = "cache" => sync.ret = SortIndex(sync.pre.rows)

\* akshare gave nothing, yfinance was asked next and its rows came back
C26_Witness ==
    /\ sync.op \in {"fetch", "refresh"}
    /\ sync.calls = <<"akshare", "yfinance">>
    /\ Len(sync.answers[2]) > 0
    /\ fetcher.last_source = "yfinance"
    /\ SeqDates(sync.answers[2]) \subseteq SeqDates(sync.ret)

(***************************************************************************)
(* C27: when the cached series spans less than 80% of the days of the      *)
(* requested period, predict_stock gets the period anew from the live      *)
(* sources, also when the short cache is fresh.                            *)
(***************************************************************************)
\* predict_stock found a cache file whose span is under 80% of the period's
ShortCacheFound ==
    /\ sync.op = "predict"
    /\ sync.pre.exists /\ Len(sync.pre.rows) > 0
    /\ SpanDays(sync.pre.rows) * 10 < ExpectedDays(sync.period) * 8

\* a short cache that is stale sends predict_stock to the sources
ShortStaleCacheRefetched ==
    (ShortCacheFound /\ StaleByRule(sync.pre, sync.now)) => Len(sync.calls) > 0

\* C27: whenever predict_stock finds a short cache, fresh or stale, the live
\* sources are asked
C27_ShortCacheRefetched ==
    ShortCacheFound => Len(sync.calls) > 0

(***************************************************************************)
(* C28: a first-step close whose ratio to the last close lies in           *)
(* [0.5, 1.5] and that lies strictly inside the quantized limit band is    *)
(* returned as the model gave it: last close 7.08 and a single sample      *)
(* starting at 6.43 give a first-day close of 6.43.                        *)
(***************************************************************************)
StrictlyInsideBand(x, prev, lim) ==
    /\ IsFinite(x)
    /\ x > Band(prev, lim).band_min_2
    /\ x < Band(prev, lim).band_max_2

\* the first close of the aggregated samples needs neither the scale
\* calibration nor the limit band
FirstCloseAcceptable ==
    /\ RatioInRange(steps.raw_first, history.last_close)
    /\ StrictlyInsideBand(steps.raw_first, history.last_close, InlineLimit(instrument))

\* C28: the first-day close of the response is the first close of the
\* aggregated samples (to the cent) whenever that close is acceptable
C28_AcceptableFirstCloseKept ==
    (stage = "done" /\ FirstCloseAcceptable) =>
        result[1].close = RoundCent(steps.raw_first)

\* the instance of the claim: one sample, 6.43 after a last close of 7.08,
\* comes back as another price
C28_Instance ==
    /\ stage = "done"
    /\ steps.samples = 1
    /\ history.last_close = 708 * Cent
    /\ steps.raw_first = 643 * Cent
    /\ FirstCloseAcceptable
    /\ result[1].close # 643 * Cent

(***************************************************************************)
(* C29: after the limit pass no close is left on a limit: a close that     *)
(* lands on or beyond a quantized bound of its band is replaced by a value *)
(* strictly inside the band, whatever the previous close.                  *)
(***************************************************************************)
\* the band of forecast day i, around the previous corrected close
DayBand(i) == Band(PrevClose(pred_df, i), InlineLimit(instrument))

\* day i's close lies strictly between the quantized bounds of its band
CloseOffLimits(i) ==
    /\ pred_df[i].close > DayBand(i).band_min_2
    /\ pred_df[i].close < DayBand(i).band_max_2

\* the quantized band of day i holds a price between its two bounds
BandHasInterior(i) == DayBand(i).band_max_2 - DayBand(i).band_min_2 >= 2 * Cent

\* C29 as stated: after the pass every close is strictly inside the
\* quantized band of its day
C29_NoClosePinned ==
    stage \in {"respond", "done"} =>
        \A i \in 1..Len(pred_df) : CloseOffLimits(i)

\* C29: after the pass every close is strictly inside the quantized band of
\* its day, at least a cent from either bound, whenever the band's bounds are
\* two cents or more apart
C29_NoClosePinnedInWideBand ==
    stage \in {"respond", "done"} =>
        \A i \in 1..Len(pred_df) :
            BandHasInterior(i) =>
                /\ CloseOffLimits(i)
                /\ pred_df[i].close >= DayBand(i).band_min_2 + Cent
                /\ pred_df[i].close <= DayBand(i).band_max_2 - Cent

\* a close that came to the pass beyond the upper bound of a band with an
\* interior and left it as the inner upper value, below the bound
C29_Witness ==
    /\ stage = "done"
    /\ \E i \in 1..Len(pred_df) :
           /\ BandHasInterior(i)
           /\ Gt(steps.before_limits[i].close, DayBand(i).band_max)
           /\ pred_df[i].close = DayBand(i).inner_max
           /\ pred_df[i].close < DayBand(i).band_max_2

(***************************************************************************)
(* C30: in every answered prediction the first day's open is within 5% of  *)
(* the last historical close and every later day's open within 8% of the  *)
(* close of the forecast day before.                                       *)
(***************************************************************************)
\* |x - ref| <= pct% of ref
Within(x, ref, pct) == IsFinite(x) /\ Abs(x - ref) * 100 <= pct * ref

\* the first open of the response against the last historical close
FirstOpenContinuous ==
    stage = "done" => Within(result[1].open, history.last_close, 5)

\* C30: the gaps test_ohlc_fix.py measures on a response are within its
\* thresholds, 5% into the forecast and 8% between forecast days
C30_OpensContinuous ==
    stage = "done" =>
        /\ Within(result[1].open, history.last_close, 5)
        /\ \A i \in 2..Len(result) : Within(result[i].open, result[i - 1].close, 8)

====
